---- MODULE Spec2Model ----
(***************************************************************************)
(* State-machine model of the CrowdSec decision poller                     *)
(* (src/app/crowdsec_client.py), of the Redis aggregation store            *)
(* (src/app/redis_client.py) and of the endpoints that read it             *)
(* (src/app/api).                                                          *)
(*                                                                         *)
(* Time is counted in seconds.  One step of the poller is one pass of the  *)
(* `while True` loop of stream_decisions (or the start-up code before it); *)
(* the upstream answers and the Redis command failures of that pass are    *)
(* the inputs of the step.  RaceSpec and ResetSpec run add_decision and    *)
(* get_decisions_by_country one Redis command at a time instead.           *)
(***************************************************************************)
EXTENDS Integers, Sequences, FiniteSets, TLC

VARIABLES
    pc,                 \* "start" | "loop" | "stopped", or the command that
                        \* add_decision issues next: where the poller is
    API_KEY,            \* CrowdSecClient.API_KEY
    KEY_RENEWAL_AT,     \* CrowdSecClient.KEY_RENEWAL_AT (NoExpiry = None)
    last_decision_id,   \* CrowdSecClient.last_decision_id (JSON value)
    redis_client,       \* RedisClient.redis_client is not None
    redis,              \* the five Redis keys and their expiry deadlines
    now,                \* wall clock, seconds
    cycle,              \* record of the most recent poller step
    lastPoll,           \* record of the poll before it that returned an item id
    view,               \* the most recent read, while nothing was written
                        \* since, or the rollup in progress
    log                 \* the add_decision calls since the store was empty

vars == <<pc, API_KEY, KEY_RENEWAL_AT, last_decision_id, redis_client, redis,
          now, cycle, lastPoll, view, log>>

-----------------------------------------------------------------------------
(* Bounds of the model *)

MaxTicks == 2          \* the clock stops after this many ticks
TickSeconds == 60      \* seconds per tick
MaxIngests == 3        \* decisions the store takes
MaxWaits == 2          \* pauses between the steps of a run with reads

-----------------------------------------------------------------------------
(* Program constants *)

RENEWAL_MARGIN == 300          \* timedelta(minutes=5)
DEFAULT_EXPIRE == 600          \* timedelta(minutes=10)
BACKOFF_MS == 5000             \* time.sleep(5)
IDLE_POLL_MS == 1250           \* time.sleep(1.25)
DECISIONS_TTL == 20
COUNTRY_TTL == 86400
HISTORY_TTL == 604800
LATEST_COUNT == 20             \* get_latest_decisions(count=20)
HISTORY_CAP == 1000            \* limit = min(limit, 1000)

NoExpiry == -1                 \* KEY_RENEWAL_AT is None
NoTTL == -1                    \* a Redis key without expiry
NoToken == ""                  \* API_KEY: str = ""

-----------------------------------------------------------------------------
(* JSON values used as decision ids.  `text` is what str() renders. *)

JsonNull == [type |-> "null", text |-> <<"N", "o", "n", "e">>]
JsonStr(chars) == [type |-> "str", text |-> chars]

\* str(json_data[0]["id"])
Str(v) == v.text

EmptyMap == [k \in {} |-> 0]
Put(f, k, v) == [x \in (DOMAIN f) \cup {k} |-> IF x = k THEN v ELSE f[x]]


-----------------------------------------------------------------------------
(* The Redis store: the five keys of redis_client.py.                      *)
(* A hash, set or sorted set that is empty does not exist as a key.  A key *)
(* whose deadline has passed is deleted as a whole (Purge).                *)

EmptyRedis ==
    [decisions     |-> EmptyMap,   \* DECISIONS_HASH_KEY: id -> json
     decisions_ttl |-> NoTTL,
     country       |-> EmptyMap,   \* COUNTRY_HASH_KEY: country code -> count
     country_ttl   |-> NoTTL,
     total         |-> 0,          \* TOTAL_ATTACKS_KEY (0: key absent)
     unique        |-> {},         \* UNIQUE_COUNTRIES_SET_KEY
     history       |-> EmptyMap,   \* DECISIONS_HISTORY_LIST_KEY: member -> score
     history_ttl   |-> NoTTL]

\* json.dumps(decision_data): the serialised document
Dumps(data) == [json |-> data]

\* f"{decision_id}:{json.dumps(decision_data)}": the id's characters, a colon,
\* the document
Member(id, data) == [id |-> id, doc |-> Dumps(data)]

Expired(deadline, t) == deadline # NoTTL /\ t > deadline

\* the same with the two metric keys under the deadline of the country hash
Purge_WithMetrics(r, t) ==
    [r EXCEPT
       !.decisions     = IF Expired(r.decisions_ttl, t) THEN EmptyMap ELSE @,
       !.decisions_ttl = IF Expired(r.decisions_ttl, t) THEN NoTTL ELSE @,
       !.country       = IF Expired(r.country_ttl, t) THEN EmptyMap ELSE @,
       !.country_ttl   = IF Expired(r.country_ttl, t) THEN NoTTL ELSE @,
       !.total         = IF Expired(r.country_ttl, t) THEN 0 ELSE @,
       !.unique        = IF Expired(r.country_ttl, t) THEN {} ELSE @,
       !.history       = IF Expired(r.history_ttl, t) THEN EmptyMap ELSE @,
       !.history_ttl   = IF Expired(r.history_ttl, t) THEN NoTTL ELSE @]

\* Redis deletes every key whose deadline has passed
Purge(r, t) ==
    [r EXCEPT
       !.decisions     = IF Expired(r.decisions_ttl, t) THEN EmptyMap ELSE @,
       !.decisions_ttl = IF Expired(r.decisions_ttl, t) THEN NoTTL ELSE @,
       !.country       = IF Expired(r.country_ttl, t) THEN EmptyMap ELSE @,
       !.country_ttl   = IF Expired(r.country_ttl, t) THEN NoTTL ELSE @,
       !.history       = IF Expired(r.history_ttl, t) THEN EmptyMap ELSE @,
       !.history_ttl   = IF Expired(r.history_ttl, t) THEN NoTTL ELSE @]

\* The Redis commands add_decision issues, in program order
Commands == {"hset", "expire_decisions", "incr", "hincrby", "expire_country",
             "sadd", "zadd", "expire_history"}

(* The progress of one add_decision call: the store, the commands that     *)
(* completed, the commands that raised, and whether an exception reached   *)
(* the outer handler (line 95).                                            *)
Begin(r) == [r |-> r, done |-> {}, failed |-> {}, aborted |-> FALSE]
Did(s, cmd, r) == [s EXCEPT !.r = r, !.done = @ \cup {cmd}]
Raised(s, cmd) == [s EXCEPT !.failed = @ \cup {cmd}]
Abort(s, cmd) == [s EXCEPT !.failed = @ \cup {cmd}, !.aborted = TRUE]

\* lines 57-65: hset of the decision, then expire of the whole hash; not in
\* an inner try, so a failure reaches the outer handler
StoreDecision(s, id, data, fails, t) ==
    IF "hset" \in fails THEN Abort(s, "hset")
    ELSE LET s1 == Did(s, "hset",
                       [s.r EXCEPT !.decisions = Put(@, id, Dumps(data))])
         IN  IF "expire_decisions" \in fails THEN Abort(s1, "expire_decisions")
             ELSE Did(s1, "expire_decisions",
                      [s1.r EXCEPT !.decisions_ttl = t + DECISIONS_TTL])

\* the same without the try of lines 68-71: the exception reaches line 95
increment_total_attacks_unguarded(s, fails) ==
    IF "incr" \in fails THEN Abort(s, "incr")
    ELSE Did(s, "incr", [s.r EXCEPT !.total = @ + 1])

\* _increment_total_attacks, under the try of lines 68-71
increment_total_attacks(s, fails) ==
    IF "incr" \in fails THEN Raised(s, "incr")
    ELSE Did(s, "incr", [s.r EXCEPT !.total = @ + 1])

\* the same with the count written as 1 instead of incremented
increment_country_count_Set(s, country, fails, t) ==
    IF "hincrby" \in fails THEN Raised(s, "hincrby")
    ELSE LET s1 == Did(s, "hincrby", [s.r EXCEPT !.country = Put(@, country, 1)])
         IN  IF "expire_country" \in fails THEN Raised(s1, "expire_country")
             ELSE Did(s1, "expire_country",
                      [s1.r EXCEPT !.country_ttl = t + COUNTRY_TTL])

\* _increment_country_count: hincrby, then expire
increment_country_count(s, country, fails, t) ==
    IF "hincrby" \in fails THEN Raised(s, "hincrby")
    ELSE LET old == IF country \in DOMAIN s.r.country
                    THEN s.r.country[country] ELSE 0
             s1 == Did(s, "hincrby",
                       [s.r EXCEPT !.country = Put(@, country, old + 1)])
         IN  IF "expire_country" \in fails THEN Raised(s1, "expire_country")
             ELSE Did(s1, "expire_country",
                      [s1.r EXCEPT !.country_ttl = t + COUNTRY_TTL])

\* _add_unique_country
add_unique_country(s, country, fails) ==
    IF "sadd" \in fails THEN Raised(s, "sadd")
    ELSE Did(s, "sadd", [s.r EXCEPT !.unique = @ \cup {country}])

\* the same without the `if country:` of line 75
UpdateCountry_NoSkip(s, country, fails, t) ==
    LET s1 == increment_country_count(s, country, fails, t)
    IN  IF s1.failed # s.failed THEN s1
        ELSE add_unique_country(s1, country, fails)

\* lines 74-82: both country updates share one try, and an empty country
\* code skips them
UpdateCountry(s, country, fails, t) ==
    IF country = "" THEN s
    ELSE LET s1 == increment_country_count(s, country, fails, t)
         IN  IF s1.failed # s.failed THEN s1
             ELSE add_unique_country(s1, country, fails)

\* _add_to_history, under the try of lines 85-88: zadd with the current time
\* as score, then expire
add_to_history(s, id, data, fails, t) ==
    IF "zadd" \in fails THEN Raised(s, "zadd")
    ELSE LET s1 == Did(s, "zadd",
                       [s.r EXCEPT !.history = Put(@, Member(id, data), t)])
         IN  IF "expire_history" \in fails THEN Raised(s1, "expire_history")
             ELSE Did(s1, "expire_history",
                      [s1.r EXCEPT !.history_ttl = t + HISTORY_TTL])

(* RedisClient.add_decision.  `fails` is the set of commands that raise if *)
(* they are issued.  The result carries the store afterwards and the       *)
(* returned boolean.                                                       *)
add_decision(r, client, id, data, fails, t) ==
    IF ~client
    THEN [r |-> r, done |-> {}, failed |-> {}, result |-> FALSE]
    ELSE LET s1 == StoreDecision(Begin(r), id, data, fails, t)
         IN  IF s1.aborted
             THEN [r |-> s1.r, done |-> s1.done, failed |-> s1.failed,
                   result |-> FALSE]
             ELSE LET s2 == increment_total_attacks(s1, fails)
                      s3 == UpdateCountry(s2, data.cn, fails, t)
                      s4 == add_to_history(s3, id, data, fails, t)
                  IN  [r |-> s4.r, done |-> s4.done, failed |-> s4.failed,
                       result |-> ~s4.aborted]

(* add_decision command by command, for the runs in which other clients    *)
(* of the store act between two of its commands.  CommandOrder is the      *)
(* order of lines 57-88; an empty country code skips the three commands of *)
(* lines 75-78.                                                            *)
\* the same with the country's commands before the INCR of the total
CommandOrder_CountryFirst ==
    <<"hset", "expire_decisions", "hincrby", "expire_country", "sadd",
      "incr", "zadd", "expire_history">>

CommandOrder == <<"hset", "expire_decisions", "incr", "hincrby",
                  "expire_country", "sadd", "zadd", "expire_history">>

CommandsFor(data) ==
    IF data.cn = ""
    THEN Commands \ {"hincrby", "expire_country", "sadd"}
    ELSE Commands

\* the first command of the order, from position k on, that the call issues
RECURSIVE CommandFrom(_, _)
CommandFrom(k, data) ==
    IF k > Len(CommandOrder) THEN "loop"
    ELSE IF CommandOrder[k] \in CommandsFor(data) THEN CommandOrder[k]
    ELSE CommandFrom(k + 1, data)

\* the command after cmd, "loop" after the last: add_decision returns
CommandAfter(cmd, data) ==
    CommandFrom(1 + CHOOSE k \in 1..Len(CommandOrder) : CommandOrder[k] = cmd,
                data)

\* EXPIRE sets a deadline on a key that exists and does nothing otherwise
Expire(content, ttl, deadline) ==
    IF content = EmptyMap THEN ttl ELSE deadline

\* the store after one command of add_decision(data, id) issued at time t
Issue(cmd, r, id, data, t) ==
    CASE cmd = "hset" -> [r EXCEPT !.decisions = Put(@, id, Dumps(data))]
      [] cmd = "expire_decisions" ->
           [r EXCEPT !.decisions_ttl =
                         Expire(r.decisions, @, t + DECISIONS_TTL)]
      [] cmd = "incr" -> [r EXCEPT !.total = @ + 1]
      [] cmd = "hincrby" ->
           [r EXCEPT !.country =
                         Put(@, data.cn,
                             1 + (IF data.cn \in DOMAIN r.country
                                  THEN r.country[data.cn] ELSE 0))]
      [] cmd = "expire_country" ->
           [r EXCEPT !.country_ttl = Expire(r.country, @, t + COUNTRY_TTL)]
      [] cmd = "sadd" -> [r EXCEPT !.unique = @ \cup {data.cn}]
      [] cmd = "zadd" -> [r EXCEPT !.history = Put(@, Member(id, data), t)]
      [] cmd = "expire_history" ->
           [r EXCEPT !.history_ttl = Expire(r.history, @, t + HISTORY_TTL)]

-----------------------------------------------------------------------------
(* Reads of the store, and clear_all *)

\* the characters ids are written in, in code-point order; "{" is the first
\* character of every document json.dumps writes
Alphabet == <<":", "A", "B", "C", "{">>
Ord(ch) == CHOOSE i \in 1..Len(Alphabet) : Alphabet[i] = ch

\* byte-wise comparison of two texts, as Redis compares members of equal score
RECURSIVE LexLess(_, _)
LexLess(s, t) ==
    IF t = <<>> THEN FALSE
    ELSE IF s = <<>> THEN TRUE
    ELSE IF Head(s) = Head(t) THEN LexLess(Tail(s), Tail(t))
    ELSE Ord(Head(s)) < Ord(Head(t))

\* the text of a member up to the first character of its document
MemberText(m) == m.id \o <<":", "{">>

\* a comes before b in ZREVRANGE's order: higher score first, and of two
\* members of equal score the one with the greater text
Above(z, a, b) ==
    \/ z[a] > z[b]
    \/ z[a] = z[b] /\ LexLess(MemberText(b), MemberText(a))

\* the members of a sorted set in ZREVRANGE's order
RECURSIVE Descending(_)
Descending(z) ==
    IF DOMAIN z = {} THEN <<>>
    ELSE LET top == CHOOSE a \in DOMAIN z :
                        \A b \in DOMAIN z \ {a} : ~Above(z, b, a)
         IN  <<top>> \o Descending([m \in DOMAIN z \ {top} |-> z[m]])

\* ZREVRANGE key start stop: zero-based and inclusive, a negative index
\* counts from the end, an index past the end is cut to the end
ZRevRange(z, start, stop) ==
    LET seq == Descending(z)
        n == Len(seq)
        from == IF start < 0 THEN n + start ELSE start
        to == IF stop < 0 THEN n + stop ELSE stop
        lo == IF from < 0 THEN 0 ELSE from
        hi == IF to >= n THEN n - 1 ELSE to
    IN  IF lo > hi \/ lo >= n THEN <<>> ELSE SubSeq(seq, lo + 1, hi + 1)

\* json.loads of a document json.dumps wrote
Loads(doc) == doc.json

\* position of the first ":" of a text, 0 if it has none
FirstColon(text) ==
    IF \E i \in 1..Len(text) : text[i] = ":"
    THEN CHOOSE i \in 1..Len(text) :
             text[i] = ":" /\ \A j \in 1..(i - 1) : text[j] # ":"
    ELSE 0

\* lines 253-262: item_str.split(":", 1) and json.loads of the second part.
\* The member always holds the ":" the writer put after the id; when the id
\* holds one itself the split falls inside the id, the second part is the
\* rest of the id, a colon and the document, json.loads raises and the item
\* is skipped.
ParseHistoryItem(m) ==
    IF FirstColon(m.id) = 0
    THEN <<[id |-> m.id, data |-> Loads(m.doc)]>>
    ELSE <<>>

\* the try around the loop instead of inside it: one item that cannot be
\* parsed and the read answers []
ParseHistory_AbortOnCorrupt(items) ==
    IF \E i \in 1..Len(items) : ParseHistoryItem(items[i]) = <<>>
    THEN <<>>
    ELSE [i \in 1..Len(items) |-> ParseHistoryItem(items[i])[1]]

RECURSIVE ParseHistory(_)
ParseHistory(items) ==
    IF items = <<>> THEN <<>>
    ELSE ParseHistoryItem(Head(items)) \o ParseHistory(Tail(items))

Min(a, b) == IF a < b THEN a ELSE b

\* lines 237-244: limit = min(limit, 1000); stop = offset + limit - 1
HistoryStop(limit, offset) == offset + Min(limit, HISTORY_CAP) - 1

(* RedisClient.get_decision_history.  `down`: the command raises (the      *)
(* connection is lost); the handler of line 266 answers [].                *)
get_decision_history(r, client, limit, offset, down) ==
    IF ~client \/ down THEN <<>>
    ELSE ParseHistory(ZRevRange(r.history, offset, HistoryStop(limit, offset)))

\* RedisClient.get_history_count
get_history_count(r, client, down) ==
    IF ~client \/ down THEN 0 ELSE Cardinality(DOMAIN r.history)

(* RedisClient.get_latest_decisions: the entries of the hash, at most      *)
(* `count` of them.  The list follows the order HGETALL gives, which the   *)
(* program does not control: the result is kept as a set.                  *)
get_latest_decisions(r, client, count, down) ==
    IF ~client \/ down THEN {}
    ELSE LET all == {[id |-> k, data |-> Loads(r.decisions[k])] :
                        k \in DOMAIN r.decisions}
         IN  IF Cardinality(all) <= count THEN all
             ELSE CHOOSE s \in SUBSET all : Cardinality(s) = count

RollupError(message) == [status |-> "error", message |-> message]

\* lines 354-362: one {country: count} per field of the hash, in the order
\* HGETALL gives them (an order the program does not choose)
Items(counts) ==
    LET n == Cardinality(DOMAIN counts)
        order == CHOOSE f \in [1..n -> DOMAIN counts] :
                     \A i, j \in 1..n : i # j => f[i] # f[j]
    IN  [i \in 1..n |-> [code |-> order[i], count |-> counts[order[i]]]]

\* the entry placed by ascending count
RECURSIVE InsertByCount_Ascending(_, _)
InsertByCount_Ascending(sorted, e) ==
    IF sorted = <<>> THEN <<e>>
    ELSE IF Head(sorted).count <= e.count
         THEN <<Head(sorted)>> \o InsertByCount_Ascending(Tail(sorted), e)
         ELSE <<e>> \o sorted

\* an entry placed into a list sorted by count, highest first: behind every
\* entry of the same or a higher count, as a stable sort leaves it
RECURSIVE InsertByCount(_, _)
InsertByCount(sorted, e) ==
    IF sorted = <<>> THEN <<e>>
    ELSE IF Head(sorted).count >= e.count
         THEN <<Head(sorted)>> \o InsertByCount(Tail(sorted), e)
         ELSE <<e>> \o sorted

\* line 365: countries_list.sort(key=count, reverse=True)
RECURSIVE SortByCount(_)
SortByCount(items) ==
    IF items = <<>> THEN <<>>
    ELSE InsertByCount(SortByCount(SubSeq(items, 1, Len(items) - 1)),
                       items[Len(items)])

\* lines 323-372: the answer made of what HGETALL, GET and SMEMBERS gave
Rollup(country_counts, total_attacks, unique_countries_set) ==
    [status |-> "success",
     metadata |-> [total_attacks |-> total_attacks,
                   unique_countries |-> Cardinality(unique_countries_set),
                   attacks_per_hour |-> total_attacks \div 24],
     countries |-> SortByCount(Items(country_counts))]

(* RedisClient.get_decisions_by_country, its three reads made at once *)
get_decisions_by_country(r, client, down) ==
    IF ~client THEN RollupError("Redis client not initialized")
    ELSE IF down THEN RollupError("An internal error occurred")
    ELSE Rollup(r.country, r.total, r.unique)

\* the keys of the store that exist
Keys(r) ==
    {k \in {"decisions", "country", "history"} : r[k] # EmptyMap}
      \cup (IF r.total # 0 THEN {"total"} ELSE {})
      \cup (IF r.unique # {} THEN {"unique"} ELSE {})

\* the same with the two metric keys left out of the delete
clear_all_MetricsKept(r, client, down) ==
    IF ~client \/ down THEN [r |-> r, result |-> FALSE]
    ELSE [r |-> [r EXCEPT !.decisions = EmptyMap, !.decisions_ttl = NoTTL,
                          !.country = EmptyMap, !.country_ttl = NoTTL,
                          !.history = EmptyMap, !.history_ttl = NoTTL],
          result |-> TRUE]

\* RedisClient.clear_all: one DEL of the five keys
clear_all(r, client, down) ==
    IF ~client \/ down THEN [r |-> r, result |-> FALSE]
    ELSE [r |-> [r EXCEPT !.decisions = EmptyMap, !.decisions_ttl = NoTTL,
                          !.country = EmptyMap, !.country_ttl = NoTTL,
                          !.total = 0, !.unique = {},
                          !.history = EmptyMap, !.history_ttl = NoTTL],
          result |-> TRUE]

-----------------------------------------------------------------------------
(* The endpoints of app/api *)

\* GET /decisions
alerts_get_latest_decisions(r, client, down) ==
    [status |-> "success",
     decision |-> get_latest_decisions(r, client, LATEST_COUNT, down)]

\* GET /decisions/history: limit is Query(100, ge=1, le=1000) and offset
\* Query(0, ge=0); other values are turned away before the handler runs
alerts_get_decision_history(r, client, limit, offset, down) ==
    IF limit < 1 \/ limit > 1000 \/ offset < 0
    THEN [status |-> "unprocessable"]
    ELSE LET decisions == get_decision_history(r, client, limit, offset, down)
         IN  [status |-> "success", decision |-> decisions,
              pagination |-> [limit |-> limit, offset |-> offset,
                              total |-> get_history_count(r, client, down),
                              returned |-> Len(decisions)]]

\* GET /country
country_get_country_stats(r, client, down) ==
    get_decisions_by_country(r, client, down)

-----------------------------------------------------------------------------
(* Upstream answers.                                                       *)
(*                                                                         *)
(* A login answer is what _make_request and response.json() give           *)
(* get_apikey: None (timeout, connection error, non-2xx), a 2xx body that  *)
(* is no JSON object, or an object with or without "token" and "expire".   *)
(* `expire` is "aware" or "naive" (an ISO timestamp, with or without zone, *)
(* that denotes the time `at`), "missing" or "garbage".                    *)

LoginNone == [kind |-> "none", has_token |-> FALSE, token |-> NoToken,
              expire |-> "missing", at |-> 0]
LoginMalformed == [kind |-> "malformed", has_token |-> FALSE, token |-> NoToken,
                   expire |-> "missing", at |-> 0]
LoginObject(has_token, token, expire, at) ==
    [kind |-> "object", has_token |-> has_token, token |-> token,
     expire |-> expire, at |-> at]

(* A poll answer: None (timeout, connection error, non-2xx), a body that   *)
(* is not JSON, a JSON value that is no array (null, an object), an empty  *)
(* array, or an array whose item 0 may lack "id" or the "source" fields.   *)
NoSource == [latitude |-> 0, longitude |-> 0, cn |-> ""]
NoItem == [has_id |-> FALSE, id |-> JsonNull, has_source |-> FALSE,
           source |-> NoSource]
PollNone == [kind |-> "none", item |-> NoItem]
PollNotJson == [kind |-> "notjson", item |-> NoItem]
PollNotArray == [kind |-> "notarray", item |-> NoItem]
PollEmpty == [kind |-> "empty", item |-> NoItem]
PollBatch(item) == [kind |-> "batch", item |-> item]
Item(id, source) == [has_id |-> TRUE, id |-> id, has_source |-> TRUE,
                     source |-> source]
ItemWithoutSource(id) == [has_id |-> TRUE, id |-> id, has_source |-> FALSE,
                          source |-> NoSource]
ItemWithoutId == NoItem

-----------------------------------------------------------------------------
(* CrowdSecClient.stream_decisions *)

\* lines 132-146: the expiry the login answer denotes, else now + 10 minutes
ParseExpire(resp, t) ==
    IF resp.expire \in {"aware", "naive"} THEN resp.at ELSE t + DEFAULT_EXPIRE

\* get_apikey (lines 115-148).  None: logged, nothing changes.  A body that
\* is no JSON object: response.json() or .get raises, nothing is caught here.
\* `granted`: the answer carried a "token" field.
get_apikey(resp, key, renewal, t) ==
    CASE resp.kind = "none" ->
           [API_KEY |-> key, KEY_RENEWAL_AT |-> renewal, raised |-> FALSE,
            login |-> "failed", granted |-> FALSE]
      [] resp.kind = "malformed" ->
           [API_KEY |-> key, KEY_RENEWAL_AT |-> renewal, raised |-> TRUE,
            login |-> "raised", granted |-> FALSE]
      [] resp.kind = "object" ->
           [API_KEY |-> IF resp.has_token THEN resp.token ELSE NoToken,
            KEY_RENEWAL_AT |-> ParseExpire(resp, t), raised |-> FALSE,
            login |-> "ok", granted |-> resp.has_token]

\* the margin left out: renewal only at the expiry itself
NearExpiry_AtExpiry(t, renewal) == renewal # NoExpiry /\ t >= renewal

\* the boundary left out: > for >=
NearExpiry_Strict(t, renewal) ==
    renewal # NoExpiry /\ t > renewal - RENEWAL_MARGIN

\* line 168: self.KEY_RENEWAL_AT and now >= KEY_RENEWAL_AT - 5 minutes
NearExpiry(t, renewal) == renewal # NoExpiry /\ t >= renewal - RENEWAL_MARGIN

\* the comparison left out: every item counts as new
IsNewDecision_Always(last, id) == TRUE

\* line 186: not self.last_decision_id == json_data[0]["id"]
IsNewDecision(last, id) == ~(last = id)

\* latitude and longitude taken from each other's field
Normalize_Swapped(item, t) ==
    [latitude |-> item.source.longitude, longitude |-> item.source.latitude,
     cn |-> item.source.cn, timestamp |-> t]

\* lines 189-195: the record handed to the store
Normalize(item, t) ==
    [latitude |-> item.source.latitude, longitude |-> item.source.longitude,
     cn |-> item.source.cn, timestamp |-> t]

(* Lines 172-208: one poll and what follows it.  `error` is "transport"    *)
(* for the None answer of line 176 and "exception" for whatever the        *)
(* handler of line 204 caught.                                             *)
PollResult(last, r, calls, sleep, error) ==
    [last |-> last, r |-> r, calls |-> calls, sleep |-> sleep, error |-> error]

\* the idle poll's sleep taken for the backoff
NoResponse_IdleSleep(last, r) ==
    PollResult(last, r, <<>>, IDLE_POLL_MS, "transport")

\* lines 176-183: _make_request returned None; log, sleep 5, continue
NoResponse(last, r) == PollResult(last, r, <<>>, BACKOFF_MS, "transport")

Poll(resp, last, r, client, fails, t) ==
    CASE resp.kind = "none" -> NoResponse(last, r)
      [] resp.kind \in {"notjson", "notarray", "empty"} ->
           PollResult(last, r, <<>>, BACKOFF_MS, "exception")
      [] resp.kind = "batch" ->
           IF ~resp.item.has_id
           THEN PollResult(last, r, <<>>, BACKOFF_MS, "exception")
           ELSE IF ~IsNewDecision(last, resp.item.id)
           THEN PollResult(last, r, <<>>, IDLE_POLL_MS, "none")
           ELSE IF ~resp.item.has_source
           THEN PollResult(resp.item.id, r, <<>>, BACKOFF_MS, "exception")
           ELSE LET data == Normalize(resp.item, t)
                    key == Str(resp.item.id)
                    res == add_decision(r, client, key, data, fails, t)
                IN  PollResult(resp.item.id, res.r,
                               <<[id |-> key, data |-> data,
                                  done |-> res.done, failed |-> res.failed,
                                  result |-> res.result,
                                  total_before |-> r.total,
                                  country_before |-> r.country,
                                  history_before |-> Cardinality(DOMAIN r.history),
                                  unique_before |-> r.unique,
                                  known_before |->
                                      \/ key \in DOMAIN r.decisions
                                      \/ \E m \in DOMAIN r.history : m.id = key]>>,
                               0, "none")

-----------------------------------------------------------------------------
(* The environments of the runs that are checked.  In the answers a login  *)
(* may give, `at` counts from the time of the login (Stamp).               *)

ID_A == JsonStr(<<"A">>)
ID_B == JsonStr(<<"B">>)
ID_C == JsonStr(<<"C">>)
SourceDE == [latitude |-> 48, longitude |-> 11, cn |-> "DE"]
SourceUS == [latitude |-> 40, longitude |-> 74, cn |-> "US"]
SourceUnknown == [latitude |-> 1, longitude |-> 2, cn |-> ""]

Stamp(resp, t) == [resp EXCEPT !.at = t + @]

\* upstream at its worst, the store up or down
UpstreamEnv ==
    [logins |-> {LoginNone, LoginMalformed,
                 LoginObject(TRUE, "T1", "missing", 0),
                 LoginObject(TRUE, "T1", "aware", 240),
                 LoginObject(TRUE, "T2", "aware", 360),
                 LoginObject(FALSE, NoToken, "naive", 360),
                 LoginObject(TRUE, "T2", "garbage", 0)},
     polls  |-> {PollNone, PollNotJson, PollNotArray, PollEmpty,
                 PollBatch(ItemWithoutId),
                 PollBatch(ItemWithoutSource(ID_B)),
                 PollBatch(Item(ID_A, SourceDE)),
                 PollBatch(Item(ID_B, SourceUS))},
     fails  |-> {{}, Commands},
     logged |-> FALSE]

\* the store at its worst, upstream answering and the clock standing still:
\* no command fails, one fails, or all but the first two fail
StoreEnv ==
    [logins |-> {LoginNone, LoginObject(TRUE, "T1", "missing", 0)},
     polls  |-> {PollNone, PollBatch(Item(ID_A, SourceDE)),
                 PollBatch(Item(ID_B, SourceUS)),
                 PollBatch(Item(ID_B, SourceUnknown))},
     fails  |-> {{}} \cup {{c} : c \in Commands}
                \cup {Commands \ {"hset", "expire_decisions"}},
     logged |-> FALSE]

\* the pages of the history a reader asks for: `down` says the store cannot
\* be reached while it is read
Page(limit, offset, down) == [limit |-> limit, offset |-> offset, down |-> down]

\* the readers' view: upstream and the store answering, three decisions from
\* two countries, a second between steps; pages of no, all and a million
\* entries from the start, of one entry from the second and from past the
\* last, and the default page with the store out of reach
QueryEnv ==
    [logins |-> {LoginObject(TRUE, "T1", "missing", 0)},
     polls  |-> {PollBatch(Item(ID_A, SourceUS)),
                 PollBatch(Item(ID_B, SourceUS)),
                 PollBatch(Item(ID_C, SourceDE))},
     fails  |-> {{}},
     logged |-> TRUE,
     waits  |-> {1},
     pages  |-> {Page(0, 0, FALSE), Page(MaxIngests, 0, FALSE),
                 Page(1000000, 0, FALSE), Page(1, 1, FALSE),
                 Page(1, MaxIngests, FALSE), Page(100, 0, TRUE)},
     downs  |-> BOOLEAN]

\* the store over its time-to-live periods: pauses just beyond each period,
\* an EXPIRE that may fail after the write before it
ExpiryEnv ==
    [logins |-> {LoginObject(TRUE, "T1", "missing", 0)},
     polls  |-> {PollBatch(Item(ID_A, SourceUS)),
                 PollBatch(Item(ID_B, SourceDE))},
     fails  |-> {{}, {"expire_country"}},
     logged |-> TRUE,
     waits  |-> {DECISIONS_TTL + 1, COUNTRY_TTL + 1, HISTORY_TTL + 1},
     pages  |-> {Page(100, 0, FALSE)},
     downs  |-> {FALSE}]

\* the recent window around its time-to-live: pauses just under and just
\* over the 20 seconds, an EXPIRE that may fail after the write before it
WindowEnv ==
    [logins |-> {LoginObject(TRUE, "T1", "missing", 0)},
     polls  |-> {PollBatch(Item(ID_A, SourceUS)),
                 PollBatch(Item(ID_B, SourceDE))},
     fails  |-> {{}, {"expire_country"}, {"expire_history"}},
     logged |-> TRUE,
     waits  |-> {DECISIONS_TTL - 1, DECISIONS_TTL + 1},
     pages  |-> {},
     downs  |-> {FALSE}]

\* an id with a ":" in it
ID_A_B == JsonStr(<<"A", ":", "B">>)

\* the history log with an id that holds the separator of its members: pages
\* of all entries, of the newest, of the second, and of two from the second
HistoryEnv ==
    [logins |-> {LoginObject(TRUE, "T1", "missing", 0)},
     polls  |-> {PollBatch(Item(ID_A, SourceUS)),
                 PollBatch(Item(ID_A_B, SourceDE)),
                 PollBatch(Item(ID_B, SourceUS))},
     fails  |-> {{}},
     logged |-> TRUE,
     waits  |-> {1},
     pages  |-> {Page(MaxIngests, 0, FALSE), Page(1, 0, FALSE),
                 Page(1, 1, FALSE), Page(2, 1, FALSE)},
     downs  |-> {FALSE}]

\* the poller thread and the requests of the API acting on the store at the
\* same time: upstream and the store answering, two decisions from two
\* countries
RaceEnv ==
    [logins |-> {LoginObject(TRUE, "T1", "missing", 0)},
     polls  |-> {PollBatch(Item(ID_A, SourceUS)),
                 PollBatch(Item(ID_B, SourceDE))},
     fails  |-> {{}},
     logged |-> TRUE,
     waits  |-> {},
     pages  |-> {},
     downs  |-> {FALSE}]

\* the store can take one more decision within the bounds
Room(r) ==
    /\ r.total < MaxIngests
    /\ Cardinality(DOMAIN r.history) < MaxIngests
    /\ \A c \in DOMAIN r.country : r.country[c] < MaxIngests

-----------------------------------------------------------------------------
(* State and steps *)

NoPoll == [valid |-> FALSE, id |-> JsonNull, fresh |-> FALSE,
           complete |-> FALSE, calls |-> 0]

\* what a poll that returned an item id is remembered by
Summary(c) ==
    [valid |-> TRUE, id |-> c.resp.item.id,
     fresh |-> IsNewDecision(c.last, c.resp.item.id),
     complete |-> c.resp.item.has_source, calls |-> Len(c.calls)]

ReturnedId(c) == c.polled /\ c.resp.kind = "batch" /\ c.resp.item.has_id

NoCycle ==
    [step |-> "none", first |-> FALSE, at |-> 0, expiry |-> NoExpiry,
     key |-> NoToken, last |-> JsonNull, login |-> "none",
     acquired |-> FALSE, polled |-> FALSE, bearer |-> NoToken,
     resp |-> PollNone, calls |-> <<>>, sleep |-> 0,
     error |-> "none", changed |-> FALSE, odd |-> FALSE, granted |-> FALSE]

\* no read since the last write
NoView ==
    [op |-> "none", limit |-> 0, offset |-> 0, down |-> FALSE,
     result |-> <<>>, total |-> 0, response |-> [status |-> "none"]]

\* `calls`: the add_decision calls since the start or the last clear_all;
\* `expired`: a key has expired since; `waits`: the pauses so far; `raced`:
\* a clear_all has run between two commands of an add_decision or of a rollup
NoLog == [calls |-> <<>>, expired |-> FALSE, waits |-> 0, raced |-> FALSE]

Init ==
    /\ pc = "start"
    /\ API_KEY = NoToken
    /\ KEY_RENEWAL_AT = NoExpiry
    /\ last_decision_id = JsonNull
    /\ redis_client \in BOOLEAN
    /\ redis = EmptyRedis
    /\ now = 0
    /\ cycle = NoCycle
    /\ lastPoll = NoPoll
    /\ view = NoView
    /\ log = NoLog

\* the facts every step records about its beginning
Opening(step) ==
    [NoCycle EXCEPT !.step = step, !.first = (cycle.step = "start"),
                    !.at = now, !.expiry = KEY_RENEWAL_AT, !.key = API_KEY,
                    !.last = last_decision_id]

\* lines 150-158: the first get_apikey, outside the loop and outside any try
Start(E) ==
    /\ pc = "start"
    /\ \E resp \in E.logins :
         LET got == get_apikey(Stamp(resp, now), API_KEY, KEY_RENEWAL_AT, now)
         IN  /\ API_KEY' = got.API_KEY
             /\ KEY_RENEWAL_AT' = got.KEY_RENEWAL_AT
             /\ pc' = IF got.raised THEN "stopped" ELSE "loop"
             /\ cycle' = [Opening("start") EXCEPT !.acquired = TRUE,
                                                   !.login = got.login,
                                                   !.granted = got.granted]
    /\ UNCHANGED <<last_decision_id, redis_client, redis, now, lastPoll,
                   view, log>>

\* lines 168-171: renewal, then `continue`; outside the try of line 172
Renew(E) ==
    /\ pc = "loop"
    /\ NearExpiry(now, KEY_RENEWAL_AT)
    /\ \E resp \in E.logins :
         LET got == get_apikey(Stamp(resp, now), API_KEY, KEY_RENEWAL_AT, now)
         IN  /\ API_KEY' = got.API_KEY
             /\ KEY_RENEWAL_AT' = got.KEY_RENEWAL_AT
             /\ pc' = IF got.raised THEN "stopped" ELSE "loop"
             /\ cycle' = [Opening("renew") EXCEPT
                            !.acquired = TRUE, !.login = got.login,
                            !.granted = got.granted,
                            \* parity of the run of failed renewals so far
                            !.odd = (got.login = "failed" /\ ~cycle.odd)]
    /\ lastPoll' = IF ReturnedId(cycle) THEN Summary(cycle) ELSE lastPoll
    /\ UNCHANGED <<last_decision_id, redis_client, redis, now, view, log>>

\* get_decisions_by_country has sent a command and not yet answered: the
\* view holds what it has read so far, and `op` the command it sends next
Reading == view.op \in {"get", "smembers"}

\* lines 172-208: the poll of a pass that does not renew
PollCycle(E) ==
    /\ pc = "loop"
    /\ ~NearExpiry(now, KEY_RENEWAL_AT)
    /\ \E resp \in E.polls, fails \in E.fails :
         LET out == Poll(resp, last_decision_id, redis, redis_client, fails, now)
         IN  /\ out.calls # <<>> => Room(redis)
             \* the log, where one is kept, holds as many calls at most
             /\ out.calls # <<>> => Len(log.calls) < MaxIngests
             /\ out.calls = <<>> => fails = {}
             /\ log' = IF E.logged THEN [log EXCEPT !.calls = @ \o out.calls]
                       ELSE log
             /\ last_decision_id' = out.last
             /\ redis' = out.r
             /\ cycle' = [Opening("poll") EXCEPT
                            !.polled = TRUE, !.bearer = API_KEY, !.resp = resp,
                            !.calls = out.calls, !.sleep = out.sleep,
                            !.error = out.error, !.changed = (out.r # redis)]
    /\ lastPoll' = IF ReturnedId(cycle) THEN Summary(cycle) ELSE lastPoll
    /\ view' = IF Reading THEN view ELSE NoView
    /\ UNCHANGED <<pc, API_KEY, KEY_RENEWAL_AT, redis_client, now>>

\* time passes; Redis drops the keys whose deadline has passed
Tick ==
    /\ now + TickSeconds <= MaxTicks * TickSeconds
    /\ now' = now + TickSeconds
    /\ redis' = Purge(redis, now + TickSeconds)
    /\ UNCHANGED <<pc, API_KEY, KEY_RENEWAL_AT, last_decision_id, redis_client,
                   cycle, lastPoll, view, log>>

\* a pause of one of the environment's lengths
Elapse(E) ==
    /\ log.waits < MaxWaits
    /\ \E d \in E.waits :
         /\ now' = now + d
         /\ redis' = Purge(redis, now + d)
         /\ log' = [log EXCEPT !.waits = @ + 1,
                               !.expired = @ \/ Purge(redis, now + d) # redis]
    /\ view' = NoView
    /\ UNCHANGED <<pc, API_KEY, KEY_RENEWAL_AT, last_decision_id, redis_client,
                   cycle, lastPoll>>

\* A read changes nothing but the view.  The runs keep the first read after
\* a write: a read after it sees the same store and the same clock, and
\* answers what it would have answered in its place.
ReadOnly ==
    /\ view.op \in {"none", "clear_all"}
    /\ UNCHANGED <<pc, API_KEY, KEY_RENEWAL_AT, last_decision_id, redis_client,
                   redis, now, cycle, lastPoll, log>>

\* a request to GET /decisions, or a call of get_latest_decisions(count=20)
GetLatest(E) ==
    /\ \E down \in E.downs :
         view' = [NoView EXCEPT
                    !.op = "latest", !.down = down,
                    !.result = get_latest_decisions(redis, redis_client,
                                                    LATEST_COUNT, down),
                    !.response = alerts_get_latest_decisions(
                                     redis, redis_client, down)]
    /\ ReadOnly

\* a call of get_decision_history and get_history_count, and what
\* GET /decisions/history answers when asked with the same limit and offset
GetHistory(E) ==
    /\ \E page \in E.pages :
         view' = [NoView EXCEPT
                    !.op = "history", !.limit = page.limit,
                    !.offset = page.offset, !.down = page.down,
                    !.result = get_decision_history(redis, redis_client,
                                   page.limit, page.offset, page.down),
                    !.total = get_history_count(redis, redis_client, page.down),
                    !.response = alerts_get_decision_history(redis, redis_client,
                                     page.limit, page.offset, page.down)]
    /\ ReadOnly

\* a request to GET /country
GetCountry(E) ==
    /\ \E down \in E.downs :
         view' = [NoView EXCEPT
                    !.op = "rollup", !.down = down,
                    !.result = get_decisions_by_country(redis, redis_client,
                                                        down),
                    !.response = country_get_country_stats(
                                     redis, redis_client, down)]
    /\ ReadOnly

\* a call of clear_all; `total` keeps the number of keys there were.  A read
\* in progress keeps what it has read.
ClearAll(E) ==
    /\ \E down \in E.downs :
         LET out == clear_all(redis, redis_client, down)
         IN  /\ redis' = out.r
             /\ view' = IF Reading THEN view
                        ELSE [NoView EXCEPT
                                !.op = "clear_all", !.down = down,
                                !.result = out.result,
                                !.total = Cardinality(Keys(redis))]
             /\ log' = IF out.result
                       THEN [log EXCEPT !.calls = <<>>, !.expired = FALSE,
                                        !.raced = @ \/ pc \in Commands
                                                    \/ Reading]
                       ELSE log
    /\ UNCHANGED <<pc, API_KEY, KEY_RENEWAL_AT, last_decision_id, redis_client,
                   now, cycle, lastPoll>>

(* The same pass and the same read, command by command.                   *)

\* lines 172-197: a pass up to the call of add_decision.  A pass that calls
\* it with a client in place stops before the first command (pc names the
\* command the call issues next, `cycle` holds the call so far); any other
\* pass is over at once.
PollBegin(E) ==
    /\ pc = "loop"
    /\ ~NearExpiry(now, KEY_RENEWAL_AT)
    /\ \E resp \in E.polls :
         LET out == Poll(resp, last_decision_id, redis, redis_client, {}, now)
             stepwise == out.calls # <<>> /\ redis_client
         IN  /\ out.calls # <<>> => Room(redis)
             /\ out.calls # <<>> => Len(log.calls) < MaxIngests
             /\ last_decision_id' = out.last
             /\ pc' = IF stepwise THEN "hset" ELSE pc
             /\ redis' = IF stepwise THEN redis ELSE out.r
             /\ log' = IF E.logged /\ ~stepwise
                       THEN [log EXCEPT !.calls = @ \o out.calls] ELSE log
             /\ cycle' = [Opening("poll") EXCEPT
                            !.polled = TRUE, !.bearer = API_KEY, !.resp = resp,
                            !.calls = IF stepwise
                                      THEN <<[out.calls[1] EXCEPT
                                                !.done = {}, !.result = FALSE]>>
                                      ELSE out.calls,
                            !.sleep = out.sleep, !.error = out.error,
                            !.changed = (~stepwise /\ out.r # redis)]
    /\ lastPoll' = IF ReturnedId(cycle) THEN Summary(cycle) ELSE lastPoll
    /\ view' = IF Reading THEN view ELSE NoView
    /\ UNCHANGED <<API_KEY, KEY_RENEWAL_AT, redis_client, now>>

\* redis_client.py lines 57-93: the next command of the call in progress;
\* after the last one add_decision returns True and the pass is over
IngestStep(E) ==
    /\ pc \in Commands
    /\ LET c == cycle.calls[1]
           next == CommandAfter(pc, c.data)
           call == [c EXCEPT !.done = @ \cup {pc}, !.result = (next = "loop")]
       IN  /\ redis' = Issue(pc, redis, c.id, c.data, now)
           /\ pc' = next
           /\ cycle' = [cycle EXCEPT !.calls = <<call>>, !.changed = TRUE]
           /\ log' = IF E.logged /\ next = "loop"
                     THEN [log EXCEPT !.calls = @ \o <<call>>] ELSE log
    /\ view' = IF Reading THEN view ELSE NoView
    /\ UNCHANGED <<API_KEY, KEY_RENEWAL_AT, last_decision_id, redis_client,
                   now, lastPoll>>

\* lines 309-317: get_decisions_by_country begins; HGETALL of the country
\* hash, or the error answer when there is no client
RollupCountry(E) ==
    /\ view' = IF ~redis_client
               THEN [NoView EXCEPT
                       !.op = "rollup_steps",
                       !.result = get_decisions_by_country(redis, FALSE, FALSE),
                       !.response = country_get_country_stats(redis, FALSE, FALSE)]
               ELSE [NoView EXCEPT
                       !.op = "get",
                       !.result = [country_counts |-> redis.country]]
    /\ ReadOnly

\* lines 320-326: GET of the total
RollupTotal(E) ==
    /\ view.op = "get"
    /\ view' = [view EXCEPT
                  !.op = "smembers",
                  !.result = [country_counts |-> view.result.country_counts,
                              total_attacks |-> redis.total]]
    /\ UNCHANGED <<pc, API_KEY, KEY_RENEWAL_AT, last_decision_id, redis_client,
                   redis, now, cycle, lastPoll, log>>

\* lines 328-372: SMEMBERS of the unique countries, and the answer
RollupUnique(E) ==
    /\ view.op = "smembers"
    /\ LET answer == Rollup(view.result.country_counts,
                            view.result.total_attacks, redis.unique)
       IN  view' = [view EXCEPT !.op = "rollup_steps", !.result = answer,
                                !.response = answer]
    /\ UNCHANGED <<pc, API_KEY, KEY_RENEWAL_AT, last_decision_id, redis_client,
                   redis, now, cycle, lastPoll, log>>

Next == Start(UpstreamEnv) \/ Renew(UpstreamEnv) \/ PollCycle(UpstreamEnv) \/ Tick

Spec == Init /\ [][Next]_vars

\* the loop keeps running: a pass that can be made is made
FairSpec ==
    /\ Spec
    /\ WF_vars(Start(UpstreamEnv))
    /\ WF_vars(Renew(UpstreamEnv))
    /\ WF_vars(PollCycle(UpstreamEnv))

StoreNext == Start(StoreEnv) \/ PollCycle(StoreEnv)

StoreSpec == Init /\ [][StoreNext]_vars

\* the poller and the readers side by side, with clear_all
QueryNext ==
    \/ Start(QueryEnv) \/ PollCycle(QueryEnv) \/ Elapse(QueryEnv)
    \/ GetLatest(QueryEnv) \/ GetHistory(QueryEnv) \/ GetCountry(QueryEnv)
    \/ ClearAll(QueryEnv)

QuerySpec == Init /\ [][QueryNext]_vars

\* the poller and the readers over the time-to-live periods
ExpiryNext ==
    \/ Start(ExpiryEnv) \/ Renew(ExpiryEnv) \/ PollCycle(ExpiryEnv)
    \/ Elapse(ExpiryEnv)
    \/ GetLatest(ExpiryEnv) \/ GetHistory(ExpiryEnv) \/ GetCountry(ExpiryEnv)

ExpirySpec == Init /\ [][ExpiryNext]_vars

\* the poller and a reader of the recent window, seconds apart
WindowNext ==
    \/ Start(WindowEnv) \/ PollCycle(WindowEnv)
    \/ Elapse(WindowEnv)
    \/ GetLatest(WindowEnv)

WindowSpec == Init /\ [][WindowNext]_vars

\* the poller and a reader of the history log
HistoryNext ==
    \/ Start(HistoryEnv) \/ PollCycle(HistoryEnv)
    \/ Elapse(HistoryEnv)
    \/ GetHistory(HistoryEnv)

HistorySpec == Init /\ [][HistoryNext]_vars

\* the poller, a rollup and clear_all, each command of one between any two
\* commands of the others
RaceNext ==
    \/ Start(RaceEnv) \/ PollBegin(RaceEnv) \/ IngestStep(RaceEnv)
    \/ RollupCountry(RaceEnv) \/ RollupTotal(RaceEnv) \/ RollupUnique(RaceEnv)
    \/ ClearAll(RaceEnv)

RaceSpec == Init /\ [][RaceNext]_vars

\* whole passes of the poller and clear_all, each between any two commands
\* of a rollup
ResetNext ==
    \/ Start(RaceEnv) \/ PollCycle(RaceEnv)
    \/ RollupCountry(RaceEnv) \/ RollupTotal(RaceEnv) \/ RollupUnique(RaceEnv)
    \/ ClearAll(RaceEnv)

ResetSpec == Init /\ [][ResetNext]_vars

-----------------------------------------------------------------------------
(* Claims *)

\* the add_decision calls of the most recent pass
Calls == {cycle.calls[i] : i \in 1..Len(cycle.calls)}

\* C1: when two polls in a row that return an item id return the same id, the
\* second one calls add_decision not at all and leaves the store as it was; the
\* two polls together call it once if the first showed the id as new and with
\* its source fields, and never otherwise.
C1_DuplicateSuppressed ==
    (ReturnedId(cycle) /\ lastPoll.valid /\ lastPoll.id = cycle.resp.item.id) =>
        /\ cycle.calls = <<>>
        /\ ~cycle.changed
        /\ lastPoll.calls = (IF lastPoll.fresh /\ lastPoll.complete THEN 1 ELSE 0)

C1_Witness ==
    /\ ReturnedId(cycle) /\ lastPoll.valid
    /\ lastPoll.id = cycle.resp.item.id
    /\ cycle.resp.item.has_source
    /\ lastPoll.calls = 1
    /\ cycle.calls = <<>>

\* C2: the poller never stops, whatever upstream and the store answer.
C2_PollerNeverStops == pc # "stopped"

\* C3: after a renewal that failed, a poll request is issued again (or the
\* login succeeds, or the loop has ended) -- polling does not wait for the
\* login to recover.
C3_PollingSurvivesFailedRenewal ==
    (cycle.step = "renew" /\ cycle.login = "failed")
        ~> (cycle.polled \/ cycle.login = "ok" \/ pc = "stopped")

\* C4: a pass of the loop that begins without any token obtained (none held,
\* no expiry known) calls get_apikey before it polls; the start-up call counts
\* for the first pass.
C4_AcquireBeforePoll ==
    (cycle.polled /\ cycle.key = NoToken /\ cycle.expiry = NoExpiry
       /\ ~cycle.first) => cycle.acquired

\* C5: a pass that begins with an expiry known and now >= expiry - 5 minutes
\* calls get_apikey and issues no poll request.
C5_RenewalBeforePolling ==
    (cycle.step \in {"renew", "poll"} /\ cycle.expiry # NoExpiry
       /\ cycle.at >= cycle.expiry - 300) =>
        (cycle.acquired /\ ~cycle.polled)

C5_Witness ==
    /\ cycle.step = "renew" /\ cycle.key # NoToken
    /\ cycle.at > 0
    /\ cycle.at >= cycle.expiry - 300
    /\ cycle.acquired /\ ~cycle.polled

\* C6: with an expiry known, a pass renews exactly when the expiry is at most
\* 5 minutes (300 s) away: at 4 minutes it renews, at 6 minutes it polls.
C6_NearExpiryExact ==
    (cycle.step \in {"renew", "poll"} /\ cycle.expiry # NoExpiry) =>
        /\ (cycle.step = "renew") <=> (cycle.expiry - cycle.at <= 300)
        /\ cycle.expiry - cycle.at = 240 => cycle.step = "renew"
        /\ cycle.expiry - cycle.at = 360 => cycle.step = "poll"

C6_Witness ==
    /\ cycle.step = "renew"
    /\ cycle.expiry # NoExpiry
    /\ cycle.expiry - cycle.at = 300

\* C7: a poll that returns an item with its source fields and an id other than
\* the last-seen one makes that id the last-seen id, calls add_decision once,
\* with the id as string and latitude, longitude and country code of the
\* item's source, and sleeps not at all.
C7_NewDecisionIngested ==
    (ReturnedId(cycle) /\ cycle.resp.item.has_source
       /\ cycle.resp.item.id # cycle.last) =>
        /\ last_decision_id = cycle.resp.item.id
        /\ Len(cycle.calls) = 1
        /\ cycle.calls[1].id = cycle.resp.item.id.text
        /\ cycle.calls[1].data.latitude = cycle.resp.item.source.latitude
        /\ cycle.calls[1].data.longitude = cycle.resp.item.source.longitude
        /\ cycle.calls[1].data.cn = cycle.resp.item.source.cn
        /\ cycle.calls[1].data.timestamp = cycle.at
        /\ cycle.sleep = 0
        /\ cycle.error = "none"

C7_Witness ==
    /\ ReturnedId(cycle) /\ cycle.resp.item.has_source
    /\ cycle.last # JsonNull
    /\ cycle.resp.item.id # cycle.last
    /\ Len(cycle.calls) = 1
    /\ cycle.sleep = 0

\* the five sub-updates of add_decision and the commands of each
SubUpdates ==
    [recent  |-> {"hset", "expire_decisions"},
     total   |-> {"incr"},
     country |-> {"hincrby", "expire_country"},
     unique  |-> {"sadd"},
     history |-> {"zadd", "expire_history"}]

Attempted(c, u) == SubUpdates[u] \cap (c.done \cup c.failed) # {}

\* C8: in a call for a decision with a country code, a failure in one
\* sub-update leaves every other sub-update attempted.
C8_FailureIsolation ==
    \A c \in Calls : \A u \in DOMAIN SubUpdates :
        (redis_client /\ c.data.cn # "" /\ SubUpdates[u] \cap c.failed # {}) =>
            \A v \in DOMAIN SubUpdates : Attempted(c, v)

\* C9: add_decision returns False exactly when the client is missing or the
\* hset or the expire of the recent window raised, whatever the other
\* commands did.
C9_FailureIffPrimaryFails ==
    \A c \in Calls :
        (~c.result) <=> \/ ~redis_client
                        \/ SubUpdates.recent \cap c.failed # {}

C9_Witness ==
    \E c \in Calls :
        /\ c.result
        /\ {"incr", "hincrby", "zadd"} \subseteq c.failed
        /\ SubUpdates.recent \subseteq c.done

\* what the store holds for the decision of call c once all five structures
\* took it
RecentHas(c) ==
    c.id \in DOMAIN redis.decisions /\ redis.decisions[c.id] = Dumps(c.data)
HistoryGrew(c) ==
    /\ Member(c.id, c.data) \in DOMAIN redis.history
    /\ Cardinality(DOMAIN redis.history) = c.history_before + 1
TotalGrew(c) == redis.total = c.total_before + 1
CountBefore(c) ==
    IF c.data.cn \in DOMAIN c.country_before
    THEN c.country_before[c.data.cn] ELSE 0
CountryGrew(c) ==
    /\ c.data.cn \in DOMAIN redis.country
    /\ redis.country[c.data.cn] = CountBefore(c) + 1
    /\ c.data.cn \in redis.unique

-----------------------------------------------------------------------------
(* Claims about the reads *)

\* the calls of the log in which add_decision returned True and no command
\* raised, for decisions with a country code
AllIngested ==
    \A i \in 1..Len(log.calls) :
        /\ log.calls[i].result
        /\ log.calls[i].failed = {}
        /\ log.calls[i].data.cn # ""

IngestsOf(code) == {i \in 1..Len(log.calls) : log.calls[i].data.cn = code}
CodesIngested == {log.calls[i].data.cn : i \in 1..Len(log.calls)}
IdsIngested == [i \in 1..Len(log.calls) |-> log.calls[i].id]

\* a rollup that answered, with nothing written since
RollupSeen == view.op = "rollup" /\ view.result.status = "success"

\* C11: a rollup read after ingests with country codes into the empty store,
\* nothing expired, reports as total_attacks the number of ingests, as
\* unique_countries the number of distinct codes, and for each code one entry
\* with the number of ingests of that code; after A (US), B (US), C (DE) it
\* reports [{US: 2}, {DE: 1}], 3 and 2.
C11_RollupCountsIngests ==
    (RollupSeen /\ AllIngested /\ ~log.expired) =>
        LET roll == view.result
            entries(code) == {k \in 1..Len(roll.countries) :
                                 roll.countries[k].code = code}
        IN  /\ roll.metadata.total_attacks = Len(log.calls)
            /\ roll.metadata.unique_countries = Cardinality(CodesIngested)
            /\ Len(roll.countries) = Cardinality(CodesIngested)
            /\ \A code \in CodesIngested :
                   /\ Cardinality(entries(code)) = 1
                   /\ \A k \in entries(code) :
                          roll.countries[k].count = Cardinality(IngestsOf(code))
            /\ (/\ IdsIngested = <<<<"A">>, <<"B">>, <<"C">>>>
                /\ IngestsOf("US") = {1, 2}
                /\ IngestsOf("DE") = {3}) =>
                   /\ roll.countries = <<[code |-> "US", count |-> 2],
                                         [code |-> "DE", count |-> 1]>>
                   /\ roll.metadata.total_attacks = 3
                   /\ roll.metadata.unique_countries = 2

C11_Witness ==
    /\ RollupSeen /\ AllIngested /\ ~log.expired
    /\ IdsIngested = <<<<"A">>, <<"B">>, <<"C">>>>
    /\ view.result.countries = <<[code |-> "US", count |-> 2],
                                 [code |-> "DE", count |-> 1]>>
    /\ view.result.metadata.total_attacks = 3

\* the time of the most recent add_decision call
LastWrite == log.calls[Len(log.calls)].data.timestamp

\* C12: a read made more than a structure's time-to-live after the last
\* write, with no write in between, finds the structure empty: latest more
\* than 20 s, the countries of the rollup more than 24 h, history and its
\* count more than 7 days after it.  (Total attacks and unique countries
\* have no time-to-live configured, so no read is late for them.)
C12_NothingOutlivesItsTTL ==
    log.calls # <<>> =>
        /\ (view.op = "latest" /\ now > LastWrite + 20) => view.result = {}
        /\ (RollupSeen /\ now > LastWrite + 86400) =>
               view.result.countries = <<>>
        /\ (view.op = "history" /\ now > LastWrite + 604800) =>
               view.result = <<>> /\ view.total = 0

\* the k-th newest call of the log
Newest(k) == log.calls[Len(log.calls) + 1 - k]

\* the calls of the log were made at times that grow from call to call
DistinctTimes ==
    \A i, j \in 1..Len(log.calls) :
        i < j => log.calls[i].data.timestamp < log.calls[j].data.timestamp

\* the entries a page of the newest-first sequence of n entries holds
PageSize(limit, offset, n) ==
    LET last == Min(offset + limit, n)
    IN  IF last > offset THEN last - offset ELSE 0

\* C13: after N ingests at distinct times, nothing expired or cleared, a
\* history read with limit and offset returns the ingested decisions at the
\* positions offset .. offset+limit-1 of the newest-first sequence, in that
\* order -- all N of them, newest first, for limit = N and offset = 0.
C13_HistoryNewestFirst ==
    (/\ view.op = "history" /\ ~view.down /\ redis_client
     /\ AllIngested /\ DistinctTimes /\ ~log.expired) =>
        LET n == PageSize(view.limit, view.offset, Len(log.calls))
        IN  /\ Len(view.result) = n
            /\ \A k \in 1..n :
                   /\ view.result[k].id = Newest(view.offset + k).id
                   /\ view.result[k].data = Newest(view.offset + k).data

\* C14: a history read returns at most min(limit, 1000) entries, whatever
\* the limit, and nothing when the offset is at least the size of the log.
C14_HistoryPageBounded ==
    view.op = "history" =>
        /\ Len(view.result) <= Min(view.limit, 1000)
        /\ view.offset >= Cardinality(DOMAIN redis.history) =>
               view.result = <<>>

\* C15: the countries of a rollup are in non-increasing order of count, and
\* every country code of the country hash has exactly one entry, with the
\* count stored for it, codes of equal count included; no other entries.
C15_RollupSortedAndComplete ==
    RollupSeen =>
        LET cs == view.result.countries
        IN  /\ \A i, j \in 1..Len(cs) : i < j => cs[i].count >= cs[j].count
            /\ \A code \in DOMAIN redis.country :
                   \E k \in 1..Len(cs) :
                       /\ cs[k] = [code |-> code, count |-> redis.country[code]]
                       /\ \A m \in 1..Len(cs) : cs[m].code = code => m = k
            /\ \A k \in 1..Len(cs) : cs[k].code \in DOMAIN redis.country

C15_Witness ==
    /\ RollupSeen
    /\ redis.country = [c \in {"US", "DE"} |-> IF c = "US" THEN 2 ELSE 1]
    /\ view.result.countries[1].code = "US"

\* C16: a read made while the store cannot be used (the client missing, or
\* the command raising) is answered with an error, by the endpoint and so
\* to its caller, and never with an empty success.
C16_UnavailableStoreIsAnError ==
    (view.op \in {"latest", "history", "rollup"}
       /\ (view.down \/ ~redis_client)) =>
        view.response.status = "error"

\* C17: after a clear_all that returned True every read finds nothing:
\* latest and history are empty, the history count is 0, the rollup reports
\* total_attacks 0, unique_countries 0 and no countries; none of the five
\* keys is left, so no state has some of them deleted and others not.
C17_ClearAllEmptiesAll ==
    (view.op = "clear_all" /\ view.result = TRUE) =>
        LET roll == get_decisions_by_country(redis, redis_client, FALSE)
        IN  /\ get_latest_decisions(redis, redis_client, LATEST_COUNT, FALSE) = {}
            /\ get_decision_history(redis, redis_client, HISTORY_CAP, 0, FALSE)
                   = <<>>
            /\ get_history_count(redis, redis_client, FALSE) = 0
            /\ roll.status = "success"
            /\ roll.metadata.total_attacks = 0
            /\ roll.metadata.unique_countries = 0
            /\ roll.countries = <<>>
            /\ Keys(redis) = {}

\* C17 with its words on concurrent reads: moreover a rollup that runs while
\* clear_all does never answers with some keys as they were before the
\* deletion and others as after it -- it lists no country next to a total
\* or a number of unique countries of 0.
C17_ClearAllIsolated ==
    /\ C17_ClearAllEmptiesAll
    /\ (/\ view.op \in {"rollup", "rollup_steps"}
        /\ view.result.status = "success"
        /\ view.result.countries # <<>>) =>
           /\ view.result.metadata.total_attacks > 0
           /\ view.result.metadata.unique_countries > 0

\* a clear_all that found all five keys
C17_Witness ==
    /\ view.op = "clear_all" /\ view.result = TRUE
    /\ view.total = 5
    /\ Keys(redis) = {}

\* the add_decision calls of a step that is a pass of the poller with a poll
StepCalls ==
    IF cycle' # cycle /\ cycle'.step = "poll"
    THEN {cycle'.calls[i] : i \in 1..Len(cycle'.calls)}
    ELSE {}

\* C18: without clear_all, no step lowers the total or takes a code out of
\* the unique-countries set; a step raises the total by one for each
\* add_decision call whose INCR succeeded and by nothing else; and while time
\* passes, however long, both keep their value.
C18_TotalAndUniquePersist ==
    [][/\ redis'.total >= redis.total
       /\ redis.unique \subseteq redis'.unique
       /\ redis'.total = redis.total
             + Cardinality({c \in StepCalls : "incr" \in c.done})
       /\ now' # now => redis'.total = redis.total
                         /\ redis'.unique = redis.unique]_vars

\* a week and more after the last ingest: recent window, country counters
\* and history have expired, total and unique countries are as they were
C18_Witness ==
    /\ log.calls # <<>>
    /\ now > LastWrite + 604800
    /\ Keys(redis) = {"total", "unique"}
    /\ redis.total = Cardinality({i \in 1..Len(log.calls) :
                                     "incr" \in log.calls[i].done})
    /\ redis.total >= 2

\* C19: while a decision id stays in the recent window, the decision stored
\* under it stays the same.
C19_StoredDecisionImmutable ==
    [][\A id \in DOMAIN redis.decisions \cap DOMAIN redis'.decisions :
           redis'.decisions[id] = redis.decisions[id]]_vars

\* C20: an acquire that brings no token (no answer, a non-2xx answer, a
\* body that is no JSON object, a 2xx body without "token") leaves the token
\* and the expiry held as they were, and no poll is sent with an empty token.
C20_OldTokenHeldUntilNewConfirmed ==
    /\ (cycle.step \in {"start", "renew"} /\ ~cycle.granted) =>
           API_KEY = cycle.key /\ KEY_RENEWAL_AT = cycle.expiry
    /\ cycle.polled => cycle.bearer # NoToken

-----------------------------------------------------------------------------
(* Claims about the poller's passes *)

\* a poll that was answered, with an empty array, a null body or a newest
\* item without an id
EmptyOrMalformed(c) ==
    /\ c.polled
    /\ \/ c.resp.kind \in {"empty", "notarray"}
       \/ c.resp.kind = "batch" /\ ~c.resp.item.has_id

\* C21: a poll answered with an empty array, a null body or a newest item
\* without an id counts as no new data: the pass calls add_decision not at
\* all, leaves last_decision_id as it was and sleeps the 1.25 seconds of the
\* idle poll, not the 5 seconds of the backoff.
C21_EmptyBatchIsNoNewData ==
    EmptyOrMalformed(cycle) =>
        /\ cycle.calls = <<>>
        /\ last_decision_id = cycle.last
        /\ cycle.sleep = IDLE_POLL_MS

\* a pass whose poll got no usable answer: a timeout, a connection error or
\* a status that is not 2xx (_make_request returned None)
TransportFailure(c) == c.polled /\ c.resp.kind = "none"

\* C22: a pass whose poll fails at the transport level calls add_decision
\* not at all, changes neither last_decision_id nor the token and its
\* expiry nor any of the five keys of the store, and sleeps the 5 seconds of
\* the backoff; the pass after it begins at the renewal check, so it is a
\* renewal when the token is near its expiry and a poll otherwise.
C22_TransportFailureBacksOff ==
    [][/\ (cycle' # cycle /\ TransportFailure(cycle')) =>
              /\ cycle'.calls = <<>>
              /\ cycle'.sleep = BACKOFF_MS
              /\ last_decision_id' = last_decision_id
              /\ API_KEY' = API_KEY
              /\ KEY_RENEWAL_AT' = KEY_RENEWAL_AT
              /\ redis' = redis
              /\ pc' = "loop"
       /\ (cycle' # cycle /\ TransportFailure(cycle)) =>
              cycle'.step = (IF NearExpiry(now, KEY_RENEWAL_AT)
                             THEN "renew" ELSE "poll")]_vars

\* a poll failed while a token was held, a decision had been seen and the
\* store held data
C22_Witness ==
    /\ TransportFailure(cycle)
    /\ cycle.sleep = BACKOFF_MS
    /\ API_KEY # NoToken
    /\ last_decision_id # JsonNull
    /\ redis.total > 0
    /\ redis.decisions # EmptyMap

\* C25: every id that becomes last_decision_id has been stored: the pass
\* that changes last_decision_id made an add_decision call for that id and
\* the call returned True, so an id is never taken for seen before it is in
\* the store and a decision that could not be normalised or stored is tried
\* again by the next poll that shows it.
C25_LastSeenWasIngested ==
    (cycle.polled /\ last_decision_id # cycle.last) =>
        \E c \in Calls : c.id = Str(last_decision_id) /\ c.result

\* the ids of the logged calls, each once
DistinctIds == {log.calls[i].id : i \in 1..Len(log.calls)}

\* C26: whatever the polls answer, no id is handed to add_decision twice --
\* not even when the newest id goes from A to B and back to A -- so the total
\* and each country's counter are at most the number of distinct decisions.
C26_EachIdIngestedOnce ==
    /\ \A i, j \in 1..Len(log.calls) :
           i # j => log.calls[i].id # log.calls[j].id
    /\ redis.total <= Cardinality(DistinctIds)
    /\ \A code \in DOMAIN redis.country :
           redis.country[code] <=
               Cardinality({log.calls[i].id : i \in IngestsOf(code)})

-----------------------------------------------------------------------------
(* Claims about expiry, history and concurrent reads *)

\* the time of the i-th call of the log
WrittenAt(i) == log.calls[i].data.timestamp

\* from the i-th call on, each call came less than `gap` seconds after the
\* one before it
GapsUnder(i, gap) ==
    \A j \in i..(Len(log.calls) - 1) : WrittenAt(j + 1) - WrittenAt(j) < gap

\* a read of the recent window that the store answered
LatestSeen == view.op = "latest" /\ redis_client /\ ~view.down

\* C23: a time-to-live belongs to a whole key and every write renews it.
\* Right after an add_decision call that returned True the recent window
\* expires 20 s, the country counters 24 h and the history 7 days after the
\* call; so latest still returns a decision written long ago while each later
\* call came less than 20 s after the one before it and the last one less
\* than 20 s ago, and returns nothing once the last call is more than 20 s
\* ago.
C23_WriteRenewsWholeKey ==
    /\ (cycle.polled /\ now = cycle.at /\ \E c \in Calls : c.result) =>
           /\ redis.decisions_ttl = now + 20
           /\ redis.country_ttl = now + 86400
           /\ redis.history_ttl = now + 604800
    /\ (LatestSeen /\ log.calls # <<>> /\ now - LastWrite < 20) =>
           \A i \in 1..Len(log.calls) :
               (log.calls[i].result /\ GapsUnder(i, 20)) =>
                   \E e \in view.result : e.id = log.calls[i].id
    /\ (LatestSeen /\ log.calls # <<>> /\ now - LastWrite > 20) =>
           view.result = {}

\* an id without the separator: the member written for it can be parsed
WellFormed(id) == \A i \in 1..Len(id) : id[i] # ":"

\* a history read the store answered, of a page of at least one entry, after
\* calls that all succeeded at growing times, nothing expired
HistorySeen ==
    /\ view.op = "history" /\ ~view.down /\ redis_client
    /\ view.limit >= 1
    /\ AllIngested /\ DistinctTimes /\ ~log.expired

\* the positions, in the newest-first sequence, of the entries of the page
\* read that can be parsed
Parsable ==
    {k \in (view.offset + 1)..Min(view.offset + view.limit, Len(log.calls)) :
        WellFormed(Newest(k).id)}

\* C24: a history read over a range with entries that cannot be parsed does
\* not fail: it returns the entries of the range that can be parsed, each
\* once and newest first, and leaves the others out.
C24_CorruptEntriesSkipped ==
    HistorySeen =>
        /\ Len(view.result) = Cardinality(Parsable)
        /\ \A k \in Parsable :
               LET rank == Cardinality({j \in Parsable : j <= k})
               IN  view.result[rank] =
                       [id |-> Newest(k).id, data |-> Newest(k).data]

\* three entries read in one page, the second of them unparsable
C24_Witness ==
    /\ HistorySeen
    /\ Len(log.calls) = 3 /\ view.offset = 0 /\ view.limit >= 3
    /\ ~WellFormed(Newest(2).id)
    /\ Len(view.result) = 2
    /\ view.result[1].id = Newest(1).id
    /\ view.result[2].id = Newest(3).id

\* C28: history gives back what was ingested, whatever characters the id is
\* written in: a read of all entries after calls that all succeeded, nothing
\* expired or cleared, holds one entry for each call, newest first, with the
\* id and the decision of the call, and the history count is the number of
\* entries the read returns.
C28_HistoryRoundTrip ==
    (HistorySeen /\ view.offset = 0 /\ view.limit >= Len(log.calls)) =>
        /\ Len(view.result) = Len(log.calls)
        /\ \A k \in 1..Len(log.calls) :
               /\ k <= Len(view.result)
               /\ view.result[k] = [id |-> Newest(k).id, data |-> Newest(k).data]
        /\ view.total = Len(view.result)

\* the sum of the counts of a list of rollup entries
RECURSIVE SumOfCounts(_)
SumOfCounts(countries) ==
    IF countries = <<>> THEN 0
    ELSE Head(countries).count + SumOfCounts(Tail(countries))

=============================================================================
